---- MODULE Spec2Model ----
(***************************************************************************)
(* Verification model of the utility-network dashboard.                    *)
(*                                                                         *)
(*   docs/js/app.js          viewport analytics: the debounce timer        *)
(*                           (scheduleAnalytics), the aggregation pass     *)
(*                           (computeAnalytics), the paged retrieval       *)
(*                           (queryAllFeatures), lengthInViewKm and the    *)
(*                           diameter and attribute filters.               *)
(*   docs/js/gis_analysis.js the per-area readiness analysis.              *)
(*                                                                         *)
(* Units: times are milliseconds, distances and lengths are metres, a      *)
(* readiness score is an integer numerator over ScoreDen.                  *)
(***************************************************************************)
EXTENDS Integers, Sequences, FiniteSets, TLC

VARIABLES
    viewport,        \* map.getBounds(): the bounds currently shown
    visible,         \* the analytics layers for which map.hasLayer() holds
    analyticsTimer,  \* app.js:283, 0 for null, else the handle of setTimeout
    timers,          \* the browser's pending timeouts: {[id, left]}
    sinceCall,       \* ms since the last scheduleAnalytics call (saturating)
    calls,           \* number of scheduleAnalytics calls (= last handle given)
    bursts,          \* number of bursts of calls begun so far
    timerRuns,       \* number of computeAnalytics runs started by the timer
    passes,          \* the computeAnalytics invocations, in start order
    display,         \* the summary table the user sees
    finished,        \* pass indices in the order they completed or failed
    scoreIn,         \* readinessScore: the arguments (wDistKm, sDistKm, lenKm)
    scoreOut,        \* readinessScore: the value returned
    areaIn,          \* per-area analysis: the water and wastewater networks
    areaOut,         \* per-area analysis: the fields attached to the area
    lenIn,           \* lengthInViewKm: the feature collection
    lenOut,          \* lengthInViewKm: total and the by-diameter map
    sumIn,           \* lengthInViewKm: two collections, their union, a bbox
    sumOut,          \* lengthInViewKm: what it returns for each of the three
    layerWhere,      \* the where-clause each filterable layer draws with
    whereMap,        \* app.js:165, the where-clause recorded for analytics
    callbacks,       \* setWhere callbacks that have not yet been called
    lastFilter       \* the last filter handler run: its input and outcome

appVars == <<viewport, visible, analyticsTimer, timers, sinceCall, calls,
             bursts, timerRuns, passes, display, finished>>

scoreVars == <<scoreIn, scoreOut>>
areaVars == <<areaIn, areaOut>>
lenVars == <<lenIn, lenOut, sumIn, sumOut>>
filterVars == <<layerWhere, whereMap, callbacks, lastFilter>>

\* the variables of the stand-alone function checks and of the filters
pureVars == <<scoreVars, areaVars, lenVars, filterVars>>

vars == <<appVars, pureVars>>

----------------------------------------------------------------------------
(* Bounds of the model *)

MaxCalls == 2          \* scheduleAnalytics calls in one behaviour
MaxPasses == 2         \* computeAnalytics invocations in one behaviour
TickMs == 175          \* largest step of the clock

(* Program constants *)

QuietMs == 350         \* setTimeout(computeAnalytics, 350)
pageSize == 2000       \* const pageSize = 2000

Min(a, b) == IF a < b THEN a ELSE b
Max(a, b) == IF a > b THEN a ELSE b

----------------------------------------------------------------------------
(* The map and the remote feature service *)

\* The four layers computeAnalytics aggregates, by the key it gives them.
Layers == {"water", "reclaimed", "hydrants", "pHydrants"}

\* Layers added to the map at start-up: waterMains and hydrantsCluster.
InitialVisible == {"water", "hydrants"}

\* Layers whose checkbox the user ticks in the model.
ToggledLayers == {"hydrants"}

\* The viewports the user moves between (Leaflet LatLngBounds).
Views == { [west |-> 0, south |-> 0, east |-> 2, north |-> 2],
           [west |-> 1, south |-> 1, east |-> 3, north |-> 3] }

InitialView == [west |-> 0, south |-> 0, east |-> 2, north |-> 2]

\* Number of features of a layer that intersect the given bounds on the
\* server: an honest source, which answers a page request with the features
\* at positions offset .. offset+limit-1 of that result set.
SourceCount(layer, bounds) ==
    IF layer = "water"
    THEN (IF bounds.west = 0 THEN pageSize + 1 ELSE 1)
    ELSE IF layer = "hydrants"
    THEN (IF bounds.west = 0 THEN 0 ELSE 5)
    ELSE IF layer = "reclaimed" THEN 3
    ELSE 0

\* q.limit(pageSize); q.offset(offset); q.intersects(bounds): the number of
\* features in the page the service returns.
ServerPage(layer, req) ==
    Min(pageSize, Max(0, SourceCount(layer, req.bounds) - req.offset))

\* function currentBBox(): LatLngBounds -> [west, south, east, north]
currentBBox(b) == <<b.west, b.south, b.east, b.north>>

----------------------------------------------------------------------------
(* queryAllFeatures: one paged retrieval.                                  *)
(*                                                                         *)
(* A feature collection is a sequence of runs [from, n, bounds]: the n     *)
(* features at positions from .. from+n-1 of the server's result set for   *)
(* `bounds`, in order.  Concatenating collections concatenates their runs. *)
(* reqs and resps record the requests issued and the page sizes received.  *)

Err == 0 - 1           \* the response recorded for a failed page request

NoResult == [type |-> "none", features |-> <<>>]

\* all.push(...batch) for the page of n features answering request req
PushBatch(all, req, n) ==
    IF n = 0 THEN all
    ELSE Append(all, [from |-> req.offset, n |-> n, bounds |-> req.bounds])

\* Entry of queryAllFeatures up to the first q.run(): offset = 0, all = [],
\* the query intersects map.getBounds() as it is now.
QueryStart(boundsNow) ==
    [ reqs   |-> << [offset |-> 0, bounds |-> boundsNow] >>,
      resps  |-> << >>,
      offset |-> 0,
      all    |-> << >>,
      st     |-> "pending",
      result |-> NoResult ]

\* Mutant of QueryOnPage: the loop also stops on a full page.
QueryOnPageStopsOnFull(t, n, boundsNow) ==
    LET all2 == PushBatch(t.all, t.reqs[Len(t.reqs)], n)
    IN  [t EXCEPT !.resps = Append(@, n), !.all = all2, !.st = "resolved",
                  !.result = [type |-> "FeatureCollection", features |-> all2]]

\* q.run resolves with a page of n features: push the batch; a short page
\* ends the loop and resolves the retrieval, a full page advances offset and
\* issues the next request, which intersects map.getBounds() as it is now.
QueryOnPage(t, n, boundsNow) ==
    LET all2 == PushBatch(t.all, t.reqs[Len(t.reqs)], n)
    IN  IF n < pageSize
        THEN [t EXCEPT !.resps = Append(@, n), !.all = all2, !.st = "resolved",
                       !.result = [type |-> "FeatureCollection",
                                   features |-> all2]]
        ELSE [t EXCEPT !.resps = Append(@, n), !.all = all2,
                       !.offset = @ + pageSize,
                       !.reqs = Append(@, [offset |-> t.offset + pageSize,
                                           bounds |-> boundsNow])]

\* Mutant of QueryOnError: an error ends the loop like a short page and the
\* features accumulated so far are returned.
QueryOnErrorReturnsPartial(t) ==
    [t EXCEPT !.resps = Append(@, Err), !.st = "resolved",
              !.result = [type |-> "FeatureCollection", features |-> t.all]]

\* q.run calls back with err: the promise rejects, the exception leaves the
\* loop, the local `all` is dropped and nothing is returned.
QueryOnError(t) ==
    [t EXCEPT !.resps = Append(@, Err), !.all = << >>, !.st = "rejected"]

----------------------------------------------------------------------------
(* computeAnalytics: one aggregation pass *)

RECURSIVE SumN(_)
SumN(runs) == IF runs = << >> THEN 0 ELSE Head(runs).n + SumN(Tail(runs))

\* fc.features.length
FeatureCount(fc) == SumN(fc.features)

\* lengthInViewKm(fc, bbox) of a fetched collection, kept symbolic: the
\* fetched runs, each clipped to bbox.  The empty sequence is 0 km.
KmInView(fc, bbox) ==
    [i \in 1..Len(fc.features) |-> [run |-> fc.features[i], clip |-> bbox]]

Blank == [shown |-> FALSE, waterKm |-> << >>, recKm |-> << >>,
          hydCnt |-> 0, pHydCnt |-> 0]

\* The figures a pass writes into #summaryTable (the diameter table and
\* the charts are written from the same values in the same synchronous
\* block).  A layer that was not visible contributes 0.
Summary(pass) ==
    LET has(k) == k \in DOMAIN pass.tasks
        fc(k)  == pass.tasks[k].result
    IN  [ shown   |-> TRUE,
          waterKm |-> IF has("water") THEN KmInView(fc("water"), pass.bbox)
                      ELSE << >>,
          recKm   |-> IF has("reclaimed")
                      THEN KmInView(fc("reclaimed"), pass.bbox) ELSE << >>,
          hydCnt  |-> IF has("hydrants") THEN FeatureCount(fc("hydrants"))
                      ELSE 0,
          pHydCnt |-> IF has("pHydrants") THEN FeatureCount(fc("pHydrants"))
                      ELSE 0 ]

\* Mutant of DisplayAfterCommit: a completing pass leaves the display alone
\* when a pass that started later has already written it.
DisplayAfterCommitGuarded(d, ps, p) ==
    IF \E q \in (p+1)..Len(ps) : ps[q].status = "committed"
    THEN d ELSE Summary(ps[p])

\* The display after pass p of ps resolved its Promise.all: the code after
\* the await writes the tables unconditionally.
DisplayAfterCommit(d, ps, p) == Summary(ps[p])

\* await Promise.all(tasks): the first rejection rejects the pass, which
\* then never reaches the code after the await; when every task resolved
\* the pass goes on to write the tables.
StatusAfterTask(pass) ==
    IF pass.status # "running" THEN pass.status
    ELSE IF \E k \in DOMAIN pass.tasks : pass.tasks[k].st = "rejected"
    THEN "failed"
    ELSE IF \A k \in DOMAIN pass.tasks : pass.tasks[k].st = "resolved"
    THEN "committed" ELSE "running"

\* The synchronous head of computeAnalytics: bbox = currentBBox(), one
\* queryAllFeatures per visible layer, each of which issues its first page
\* request before the await.
NewPass(by) ==
    LET tasks == [k \in visible \cap Layers |-> QueryStart(viewport)]
        pass0 == [bbox |-> currentBBox(viewport), by |-> by,
                  gap |-> IF by = "timer" THEN sinceCall ELSE 0,
                  tasks |-> tasks, status |-> "running"]
    IN  [pass0 EXCEPT !.status = StatusAfterTask(pass0)]

computeAnalytics(by) ==
    LET pass == NewPass(by)
        ps   == Append(passes, pass)
        p    == Len(ps)
    IN  /\ passes' = ps
        /\ IF pass.status = "committed"
           THEN /\ display' = DisplayAfterCommit(display, ps, p)
                /\ finished' = Append(finished, p)
           ELSE UNCHANGED <<display, finished>>

----------------------------------------------------------------------------
(* gis_analysis.js: readinessScore.                                        *)
(*                                                                         *)
(* Distances and lengths are whole metres.  An index is a numerator over   *)
(* IdxDen, a weight is in tenths, a score is a numerator over ScoreDen.    *)
(* On these denominators every quotient of the code is exact.              *)

Infinity == 1000000000     \* the JavaScript value Infinity
CapM == 600                \* d/0.6: proximity decays to zero at 0.6 km
GoodLenM == 1500           \* lenKm/1.5: 1.5 km of pipe is full density
IdxDen == 5 * CapM         \* = 2 * GoodLenM
ScoreDen == 10 * IdxDen

\* Mutant of toIdx: the quotient is not capped at 1.
toIdxNoCap(d) == IF d = Infinity THEN 0 ELSE IdxDen - (d * IdxDen) \div CapM

\* const toIdx = d => (d===Infinity) ? 0 : (1 - Math.min(d/0.6, 1))
toIdx(d) ==
    IF d = Infinity THEN 0 ELSE IdxDen - Min((d * IdxDen) \div CapM, IdxDen)

\* const dIdx = Math.min(lenKm/1.5, 1)
densityIdx(lenM) == Min((lenM * IdxDen) \div GoodLenM, IdxDen)

\* Mutant of readinessScore: the weights are chosen by which distances are
\* Infinity instead of by which indices are zero.
readinessScoreByInfinity(wDistKm, sDistKm, lenKm) ==
    LET wIdx == toIdx(wDistKm)
        sIdx == toIdx(sDistKm)
        dIdx == densityIdx(lenKm)
        weights == IF wDistKm = Infinity /\ sDistKm = Infinity
                   THEN <<0, 0, 10>>
                   ELSE IF wDistKm = Infinity THEN <<0, 6, 4>>
                   ELSE IF sDistKm = Infinity THEN <<6, 0, 4>>
                   ELSE <<4, 4, 2>>
    IN  weights[1] * wIdx + weights[2] * sIdx + weights[3] * dIdx

\* function readinessScore(wDistKm, sDistKm, lenKm)
readinessScore(wDistKm, sDistKm, lenKm) ==
    LET wIdx == toIdx(wDistKm)
        sIdx == toIdx(sDistKm)
        dIdx == densityIdx(lenKm)
        weights == IF wIdx = 0 /\ sIdx = 0 THEN <<0, 0, 10>>
                   ELSE IF wIdx = 0 THEN <<0, 6, 4>>
                   ELSE IF sIdx = 0 THEN <<6, 0, 4>>
                   ELSE <<4, 4, 2>>
    IN  weights[1] * wIdx + weights[2] * sIdx + weights[3] * dIdx

\* The distances (m) and pipe lengths (m) readinessScore is checked on.
DistGrid == {0, 1, 100, 200, 300, 400, 500, 599, 600, 601, 700, 5000}
            \cup {Infinity}
LenGrid == {0, 1, 500, 800, 1000, 1499, 1500, 1501, 3000}

NotYet == 0 - 1            \* scoreOut before the function has returned

ScoreInit ==
    /\ scoreIn \in [w : DistGrid, s : DistGrid, len : LenGrid]
    /\ scoreOut = NotYet

\* readinessScore(wDist, sDist, pipeLenKm) is called and returns.
ScoreCall ==
    /\ scoreOut = NotYet
    /\ scoreOut' = readinessScore(scoreIn.w, scoreIn.s, scoreIn.len)
    /\ UNCHANGED <<scoreIn, appVars, areaVars, lenVars, filterVars>>

----------------------------------------------------------------------------
(* gis_analysis.js: the analysis of one growth area (the body of main's    *)
(* loop).  A line feature carries what turf measures of it against the     *)
(* area: dist, the distance of the area's centroid to the line; boxDist    *)
(* and polyDist, its distance to the area's bounding box and to the area   *)
(* itself, so that it intersects a buffer of radius r around either iff    *)
(* that distance is at most r; len, its full length; inside, the length of *)
(* the part of it that lies within the 250 m buffer of the area.           *)

MaxLines == 2              \* features in one network collection

SearchRadiusM == 2000      \* linesNearPolygon(area, water, 2)
BufferM == 250             \* sumLengthWithinBufferKm_local(..., 0.25)

ClaimLine == [type |-> "LineString", dist |-> 200, len |-> 1000,
              inside |-> 800, boxDist |-> 0, polyDist |-> 100]

LineKinds ==
    { ClaimLine,
      [type |-> "LineString", dist |-> 3000, len |-> 500, inside |-> 0,
       boxDist |-> 2500, polyDist |-> 2700],
      [type |-> "LineString", dist |-> 900, len |-> 700, inside |-> 0,
       boxDist |-> 300, polyDist |-> 600],
      [type |-> "LineString", dist |-> 500, len |-> 2000, inside |-> 10,
       boxDist |-> 0, polyDist |-> 240],
      [type |-> "MultiLineString", dist |-> 100, len |-> 400, inside |-> 400,
       boxDist |-> 0, polyDist |-> 0] }

LineCollections == UNION {[1..n -> LineKinds] : n \in 0..MaxLines}

\* function linesNearPolygon(poly, lineFC, radiusKm): the LineString
\* features that intersect the buffered bounding box of the area
linesNearPolygon(lineFC, radiusM) ==
    SelectSeq(lineFC, LAMBDA f : f.type = "LineString" /\ f.boxDist <= radiusM)

\* function nearestLineDistanceKm_local(point, lineFC)
RECURSIVE nearestLineDistanceKm_local(_)
nearestLineDistanceKm_local(lineFC) ==
    IF lineFC = << >> THEN Infinity
    ELSE Min(Head(lineFC).dist, nearestLineDistanceKm_local(Tail(lineFC)))

\* Mutant of BufferLength: the part of the line inside the buffer is
\* measured.
BufferLengthClipped(f) == f.inside

\* total += turf.length(f, {units:'kilometers'})
BufferLength(f) == f.len

\* the inner function add(fc) of sumLengthWithinBufferKm_local
RECURSIVE addLengths(_, _)
addLengths(fc, bufferM) ==
    IF fc = << >> THEN 0
    ELSE (IF Head(fc).type = "LineString" /\ Head(fc).polyDist <= bufferM
          THEN BufferLength(Head(fc)) ELSE 0)
         + addLengths(Tail(fc), bufferM)

\* function sumLengthWithinBufferKm_local(poly, waterFC, sewerFC, bufferKm)
sumLengthWithinBufferKm_local(waterFC, sewerFC, bufferM) ==
    addLengths(waterFC, bufferM) + addLengths(sewerFC, bufferM)

NoArea == [done |-> FALSE, waterNear |-> << >>, sewerNear |-> << >>,
           waterDist |-> 0, sewerDist |-> 0, pipeLen |-> 0, readiness |-> 0]

\* One iteration of the loop of main: the constants waterNear and
\* sewerNear, and the fields _waterDist, _sewerDist, _pipeLen and readiness
\* assigned to area.properties.
AnalyseArea(water, wastewater) ==
    LET waterNear == linesNearPolygon(water, SearchRadiusM)
        sewerNear == linesNearPolygon(wastewater, SearchRadiusM)
        wDist     == nearestLineDistanceKm_local(waterNear)
        sDist     == nearestLineDistanceKm_local(sewerNear)
        pipeLenKm == sumLengthWithinBufferKm_local(waterNear, sewerNear,
                                                   BufferM)
    IN  [done |-> TRUE, waterNear |-> waterNear, sewerNear |-> sewerNear,
         waterDist |-> wDist, sewerDist |-> sDist, pipeLen |-> pipeLenKm,
         readiness |-> readinessScore(wDist, sDist, pipeLenKm)]

AreaInit ==
    /\ areaIn \in [water : LineCollections, wastewater : LineCollections]
    /\ areaOut = NoArea

\* The loop body runs for the area.
AreaStep ==
    /\ ~areaOut.done
    /\ areaOut' = AnalyseArea(areaIn.water, areaIn.wastewater)
    /\ UNCHANGED <<areaIn, appVars, scoreVars, lenVars, filterVars>>

----------------------------------------------------------------------------
(* app.js: lengthInViewKm.                                                 *)
(*                                                                         *)
(* A feature is [geom, parts, nd]: its geometry type ("none" when it has   *)
(* no geometry), for each of its coordinate arrays the length in metres    *)
(* that turf.length(turf.bboxClip(part, bbox)) measures (Throws when turf  *)
(* throws on it), and the value of properties.nominaldiameter.             *)
(* A JavaScript value is [t, v] with t one of "undefined", "null",         *)
(* "number", "nan" and "text" (a string that is not a numeral).            *)

MaxFeat == 2               \* features in one collection

Throws == 0 - 1

Undefined == [t |-> "undefined", v |-> 0]
Null == [t |-> "null", v |-> 0]
NaN == [t |-> "nan", v |-> 0]
Text == [t |-> "text", v |-> 0]
Num(n) == [t |-> "number", v |-> n]

FeatureKinds ==
    { [geom |-> "LineString", parts |-> <<1000>>, nd |-> Num(150)],
      [geom |-> "LineString", parts |-> <<500>>, nd |-> Num(100)],
      [geom |-> "LineString", parts |-> <<700>>, nd |-> Null],
      [geom |-> "LineString", parts |-> <<300>>, nd |-> Undefined],
      [geom |-> "LineString", parts |-> <<250>>, nd |-> Text],
      [geom |-> "LineString", parts |-> <<0>>, nd |-> NaN],
      [geom |-> "MultiLineString", parts |-> <<200, 400>>, nd |-> Num(150)],
      [geom |-> "MultiLineString", parts |-> <<100, Throws, 50>>,
       nd |-> Num(100)],
      [geom |-> "Point", parts |-> << >>, nd |-> Num(150)],
      [geom |-> "none", parts |-> << >>, nd |-> Num(100)] }

FeatureCollections == UNION {[1..n -> FeatureKinds] : n \in 0..MaxFeat}

\* Number(x): null converts to 0; undefined, NaN and a string that is not
\* a numeral convert to NaN.
NumberOf(x) ==
    IF x.t = "number" THEN [finite |-> TRUE, v |-> x.v]
    ELSE IF x.t = "null" THEN [finite |-> TRUE, v |-> 0]
    ELSE [finite |-> FALSE, v |-> 0]

\* Mutant of MapAdd: the bin is overwritten, byDiameterMap.set(d, km).
MapSet(m, d, km) ==
    [k \in DOMAIN m \cup {d} |-> IF k = d THEN km ELSE m[k]]

\* byDiameterMap.set(d, (byDiameterMap.get(d) || 0) + km)
MapAdd(m, d, km) ==
    [k \in DOMAIN m \cup {d} |->
        (IF k \in DOMAIN m THEN m[k] ELSE 0) + (IF k = d THEN km ELSE 0)]

\* The inner function addLen(coords), on the accumulator
\* acc = [totalKm, byDia, thrown]: totalKm grows by the clipped length, and
\* with a map the bin of Number(nominaldiameter) does when that is finite.
addLen(acc, km, nd, withMap) ==
    IF km = Throws THEN [acc EXCEPT !.thrown = TRUE]
    ELSE LET d == NumberOf(nd)
         IN  [acc EXCEPT !.totalKm = @ + km,
                         !.byDia = IF withMap /\ d.finite
                                   THEN MapAdd(@, d.v, km) ELSE @]

\* for (const coords of f.geometry.coordinates) addLen(coords), left by the
\* first exception
RECURSIVE addParts(_, _, _, _)
addParts(acc, parts, nd, withMap) ==
    IF parts = << >> \/ acc.thrown THEN acc
    ELSE addParts(addLen(acc, Head(parts), nd, withMap), Tail(parts), nd,
                  withMap)

\* The body of the loop over feats: features without geometry and of other
\* geometry types are skipped, an exception ends the feature.
RECURSIVE addFeatures(_, _, _)
addFeatures(acc, feats, withMap) ==
    IF feats = << >> THEN acc
    ELSE LET f == Head(feats)
             a == IF f.geom \in {"LineString", "MultiLineString"}
                  THEN addParts(acc, f.parts, f.nd, withMap) ELSE acc
         IN  addFeatures([a EXCEPT !.thrown = FALSE], Tail(feats), withMap)

\* function lengthInViewKm(featureCollection, bbox, byDiameterMap = null)
lengthInViewKm(feats, withMap) ==
    LET r == addFeatures([totalKm |-> 0, byDia |-> << >>, thrown |-> FALSE],
                         feats, withMap)
    IN  [done |-> TRUE, totalKm |-> r.totalKm, byDia |-> r.byDia]

NoLen == [done |-> FALSE, totalKm |-> 0, byDia |-> << >>]

NoSum == [done |-> FALSE, a |-> NoLen, b |-> NoLen, both |-> NoLen]

\* no collections are being united
SumIdle ==
    /\ sumIn = [a |-> << >>, b |-> << >>, both |-> << >>,
                bbox |-> currentBBox(InitialView)]
    /\ sumOut = NoSum

LenInit ==
    /\ lenIn \in FeatureCollections
    /\ lenOut = NoLen
    /\ SumIdle

\* lengthInViewKm(waterFC, bbox, byDia) is called and returns.
LenCall ==
    /\ ~lenOut.done
    /\ lenOut' = lengthInViewKm(lenIn, TRUE)
    /\ UNCHANGED <<lenIn, sumIn, sumOut, appVars, scoreVars, areaVars,
                   filterVars>>

\* What turf.length(turf.bboxClip(part, bbox)) measures of a part that
\* measures m in the initial view: all of it there, a quarter of it in the
\* other view; a part turf throws on, it throws on in every view.
ClippedM(m, bbox) ==
    IF m = Throws THEN Throws
    ELSE IF bbox = currentBBox(InitialView) THEN m ELSE m \div 4

\* the features as bboxClip and length see them with this bbox
InBBox(feats, bbox) ==
    [i \in 1..Len(feats) |->
        [feats[i] EXCEPT !.parts = [j \in 1..Len(@) |-> ClippedM(@[j], bbox)]]]

\* the kinds of feature the collections to be united are made of
PartKinds ==
    { [geom |-> "LineString", parts |-> <<1000>>, nd |-> Num(150)],
      [geom |-> "LineString", parts |-> <<700>>, nd |-> Null],
      [geom |-> "MultiLineString", parts |-> <<200, 400>>, nd |-> Num(150)],
      [geom |-> "MultiLineString", parts |-> <<100, Throws, 50>>,
       nd |-> Num(100)] }

PartCollections == UNION {[1..n -> PartKinds] : n \in 0..MaxFeat}

\* the collections that hold the features of a and of b, each in its order
RECURSIVE Merges(_, _)
Merges(a, b) ==
    IF a = << >> THEN {b}
    ELSE IF b = << >> THEN {a}
    ELSE {<<Head(a)>> \o m : m \in Merges(Tail(a), b)}
         \cup {<<Head(b)>> \o m : m \in Merges(a, Tail(b))}

SumInit ==
    /\ \E a \in PartCollections, b \in PartCollections :
          \E both \in Merges(a, b), v \in Views :
             sumIn = [a |-> a, b |-> b, both |-> both, bbox |-> currentBBox(v)]
    /\ sumOut = NoSum

\* lengthInViewKm(fc, bbox, new Map()) is called on each of the three
\* collections.
SumCall ==
    /\ ~sumOut.done
    /\ sumOut' =
          [done |-> TRUE,
           a    |-> lengthInViewKm(InBBox(sumIn.a, sumIn.bbox), TRUE),
           b    |-> lengthInViewKm(InBBox(sumIn.b, sumIn.bbox), TRUE),
           both |-> lengthInViewKm(InBBox(sumIn.both, sumIn.bbox), TRUE)]
    /\ UNCHANGED <<sumIn, lenIn, lenOut, appVars, scoreVars, areaVars,
                   filterVars>>

----------------------------------------------------------------------------
(* The debounce timer *)

Saturate(ms) == IF ms > QuietMs THEN QuietMs + 1 ELSE ms

\* clearTimeout(handle): a handle that is null or has fired removes nothing
ClearTimeout(ts, handle) == {t \in ts : t.id # handle}

\* Mutant of TimersAfterSchedule: the outstanding timeout is not cleared.
TimersAfterScheduleNoClear(ts, handle, id) ==
    ts \cup {[id |-> id, left |-> QuietMs]}

\* The pending timeouts after scheduleAnalytics():
\*   if (analyticsTimer) clearTimeout(analyticsTimer);
\*   analyticsTimer = setTimeout(computeAnalytics, 350);
TimersAfterSchedule(ts, handle, id) ==
    ClearTimeout(ts, handle) \cup {[id |-> id, left |-> QuietMs]}

\* A timeout that is due runs before any further event is handled.
TimerDue == \E t \in timers : t.left = 0

scheduleAnalytics ==
    /\ calls < MaxCalls
    /\ ~TimerDue
    /\ timers' = TimersAfterSchedule(timers, analyticsTimer, calls + 1)
    /\ Len(passes) + Cardinality(timers') <= MaxPasses
    /\ analyticsTimer' = calls + 1
    /\ calls' = calls + 1
    /\ bursts' = IF sinceCall >= QuietMs THEN bursts + 1 ELSE bursts
    /\ sinceCall' = 0

----------------------------------------------------------------------------
(* Events *)

\* map.on('moveend', scheduleAnalytics): the user panned or zoomed to b
MoveEnd(b) ==
    /\ b # viewport
    /\ viewport' = b
    /\ scheduleAnalytics
    /\ UNCHANGED <<visible, timerRuns, passes, display, finished, pureVars>>

\* layer.on('add remove', ...): the user ticked a layer's checkbox
\* (updateScaleHint only rewrites the zoom hint text)
LayerToggle(l) ==
    /\ visible' = IF l \in visible THEN visible \ {l} ELSE visible \cup {l}
    /\ scheduleAnalytics
    /\ UNCHANGED <<viewport, timerRuns, passes, display, finished, pureVars>>

\* Time passes, up to the next timeout that falls due.
Tick ==
    /\ ~TimerDue
    /\ timers # {} \/ sinceCall <= QuietMs
    /\ LET d == IF timers = {} THEN TickMs
                ELSE Min(TickMs, CHOOSE m \in {t.left : t \in timers} :
                                   \A t \in timers : m <= t.left)
       IN  /\ timers' = {[t EXCEPT !.left = @ - d] : t \in timers}
           /\ sinceCall' = Saturate(sinceCall + d)
    /\ UNCHANGED <<viewport, visible, analyticsTimer, calls, bursts,
                   timerRuns, passes, display, finished, pureVars>>

\* The timeout set by scheduleAnalytics fires: computeAnalytics() runs.
\* analyticsTimer keeps the handle that fired.
TimerFire ==
    \E t \in timers :
        /\ t.left = 0
        /\ timers' = timers \ {t}
        /\ timerRuns' = timerRuns + 1
        /\ computeAnalytics("timer")
        /\ UNCHANGED <<viewport, visible, analyticsTimer, sinceCall, calls,
                       bursts, pureVars>>

\* Mutant of Refresh: the click also cancels the scheduled run.
RefreshCancelsTimer ==
    /\ Len(passes) + Cardinality(timers) < MaxPasses
    /\ computeAnalytics("refresh")
    /\ timers' = ClearTimeout(timers, analyticsTimer)
    /\ analyticsTimer' = 0
    /\ UNCHANGED <<viewport, visible, sinceCall, calls, bursts, timerRuns,
                   pureVars>>

\* refreshBtn click: computeAnalytics() runs at once.
Refresh ==
    /\ Len(passes) + Cardinality(timers) < MaxPasses
    /\ computeAnalytics("refresh")
    /\ UNCHANGED <<viewport, visible, analyticsTimer, timers, sinceCall, calls,
                   bursts, timerRuns, pureVars>>

\* The effect on pass p of its task k becoming t: Promise.all settles, and a
\* pass whose tasks all resolved writes the tables.
TaskSettles(p, k, t) ==
    LET pass1 == [passes[p] EXCEPT !.tasks[k] = t]
        pass2 == [pass1 EXCEPT !.status = StatusAfterTask(pass1)]
        ps    == [passes EXCEPT ![p] = pass2]
    IN  /\ passes' = ps
        /\ IF pass2.status # passes[p].status
           THEN /\ finished' = Append(finished, p)
                /\ display' = IF pass2.status = "committed"
                              THEN DisplayAfterCommit(display, ps, p)
                              ELSE display
           ELSE UNCHANGED <<display, finished>>

\* A page request of pass p, layer k is answered with a page.
PageArrives(p, k) ==
    /\ passes[p].tasks[k].st = "pending"
    /\ LET t == passes[p].tasks[k]
           n == ServerPage(k, t.reqs[Len(t.reqs)])
       IN  TaskSettles(p, k, QueryOnPage(t, n, viewport))
    /\ UNCHANGED <<viewport, visible, analyticsTimer, timers, sinceCall, calls,
                   bursts, timerRuns, pureVars>>

\* A page request of pass p, layer k fails.
PageFails(p, k) ==
    /\ passes[p].tasks[k].st = "pending"
    /\ TaskSettles(p, k, QueryOnError(passes[p].tasks[k]))
    /\ UNCHANGED <<viewport, visible, analyticsTimer, timers, sinceCall, calls,
                   bursts, timerRuns, pureVars>>

----------------------------------------------------------------------------
(* app.js: the diameter filter and the attribute filter control.           *)
(*                                                                         *)
(* The text of an input box is [t, v]: t is "empty", "numeral" (v is the   *)
(* number it spells), "date" (a yyyy-mm-dd date, v the day it names),      *)
(* "infinity" (the word Infinity) or "word" (any other text).  A           *)
(* where-clause is [field, op, rhs] with rhs = [k, v]: k tells how the     *)
(* right-hand side was written ("NULL", "number", "epoch", "quoted",       *)
(* "wrapped" in %...%, or the kind of a text copied as typed).             *)

EmptyText == [t |-> "empty", v |-> 0]
Numeral(n) == [t |-> "numeral", v |-> n]
DateText == [t |-> "date", v |-> 18262]
InfinityText == [t |-> "infinity", v |-> 0]
Word == [t |-> "word", v |-> 0]

\* the keys of layerRegistry the filters are applied to
FilterKeys == {"waterMains", "hydrants"}

\* what the user types into the diameter box
DiameterTexts == {EmptyText, Numeral(150), Numeral(0 - 5), InfinityText, Word}

\* the selected <option> of fField: none before the fields are loaded
NoOption == [name |-> "", type |-> ""]

FieldOptions ==
    { NoOption,
      [name |-> "installdate", type |-> "esriFieldTypeDate"],
      [name |-> "material", type |-> "esriFieldTypeString"] }

Operators == {"=", "LIKE"}

\* what the user types into the value box (Date.parse is applied to these)
ValueTexts == {EmptyText, DateText, Word}

\* the clause '1=1'
MatchAll == [field |-> "1", op |-> "=", rhs |-> [k |-> "number", v |-> 1]]

\* no clause: setWhere was not called
NoClause == [field |-> "", op |-> "", rhs |-> [k |-> "", v |-> 0]]

\* Number(text): the empty string converts to 0, a numeral to its number,
\* "Infinity" to Infinity and any other text to NaN.
NumberOfText(x) ==
    IF x.t = "numeral" THEN [finite |-> TRUE, v |-> x.v]
    ELSE IF x.t = "empty" THEN [finite |-> TRUE, v |-> 0]
    ELSE [finite |-> FALSE, v |-> 0]

\* Date.parse(text): the time named by a date, NaN for a word or nothing.
DateParse(x) ==
    IF x.t = "date" THEN [finite |-> TRUE, v |-> x.v]
    ELSE [finite |-> FALSE, v |-> 0]

\* function buildWhere(field, op, value, ftype)
buildWhere(field, op, value, ftype) ==
    IF field = "" \/ op = "" THEN MatchAll
    ELSE IF value.t = "empty"
    THEN [field |-> field, op |-> op, rhs |-> [k |-> "NULL", v |-> 0]]
    ELSE IF ftype = "esriFieldTypeString"
    THEN [field |-> field, op |-> op,
          rhs |-> [k |-> IF op = "LIKE" THEN "wrapped" ELSE "quoted",
                   v |-> value.v]]
    ELSE IF ftype = "esriFieldTypeDate"
    THEN LET t == DateParse(value)
         IN  IF t.finite
             THEN [field |-> field, op |-> op,
                   rhs |-> [k |-> "epoch", v |-> t.v]]
             ELSE [field |-> field, op |-> op,
                   rhs |-> [k |-> "NULL", v |-> 0]]
    ELSE [field |-> field, op |-> op, rhs |-> [k |-> value.t, v |-> value.v]]

NoFilter == [by |-> "none", key |-> "", ftype |-> "", value |-> EmptyText,
             alerted |-> FALSE, where |-> NoClause]

\* lyr.setWhere(where, callback): the layer draws with the clause at once,
\* the callback is called once the layer has been refreshed.  The callback
\* remembers the handler run it was made by.
SetWhere(key, where, does, from) ==
    /\ calls + Len(callbacks) < MaxCalls
    /\ layerWhere' = [layerWhere EXCEPT ![key] = where]
    /\ callbacks' = Append(callbacks, [key |-> key, where |-> where,
                                       does |-> does, from |-> from])

\* function applyDiameterFilter(), with text in the input diamMin
applyDiameterFilter(text) ==
    LET v    == NumberOfText(text)
        run  == [by |-> "applyDiameterFilter", key |-> "waterMains",
                 ftype |-> "", value |-> text, alerted |-> FALSE,
                 where |-> NoClause]
    IN  /\ IF ~v.finite \/ v.v < 0
           THEN /\ lastFilter' = [run EXCEPT !.alerted = TRUE]
                /\ UNCHANGED <<layerWhere, callbacks>>
           ELSE LET where == [field |-> "nominaldiameter", op |-> ">=",
                              rhs |-> [k |-> "number", v |-> v.v]]
                    done  == [run EXCEPT !.where = where]
                IN  /\ SetWhere("waterMains", where, "set", done)
                    /\ lastFilter' = done
        /\ UNCHANGED <<whereMap, appVars, scoreVars, areaVars, lenVars>>

\* function apply() of the filter control, with the layer key, the selected
\* field option, the operator and the text of the value box
apply(key, opt, op, value) ==
    LET clause == buildWhere(opt.name, op, value, opt.type)
        done   == [by |-> "apply", key |-> key, ftype |-> opt.type,
                   value |-> value, alerted |-> FALSE, where |-> clause]
    IN  /\ SetWhere(key, clause, "set", done)
        /\ lastFilter' = done
        /\ UNCHANGED <<whereMap, appVars, scoreVars, areaVars, lenVars>>

\* function clear() of the filter control; clearDiameterFilter() is the
\* same for waterMains
clear(key) ==
    LET done == [by |-> "clear", key |-> key, ftype |-> "",
                 value |-> EmptyText, alerted |-> FALSE, where |-> MatchAll]
    IN  /\ SetWhere(key, MatchAll, "delete", done)
        /\ lastFilter' = done
        /\ UNCHANGED <<whereMap, appVars, scoreVars, areaVars, lenVars>>

\* A callback given to setWhere is called:
\*   whereMap.set(key, clause) or whereMap.delete(key); scheduleAnalytics?.()
SetWhereDone(i) ==
    LET c == callbacks[i]
    IN  /\ whereMap' = IF c.does = "set"
                       THEN [k \in DOMAIN whereMap \cup {c.key} |->
                                IF k = c.key THEN c.where ELSE whereMap[k]]
                       ELSE [k \in DOMAIN whereMap \ {c.key} |-> whereMap[k]]
        /\ callbacks' = SubSeq(callbacks, 1, i - 1)
                        \o SubSeq(callbacks, i + 1, Len(callbacks))
        /\ scheduleAnalytics
        /\ UNCHANGED <<layerWhere, lastFilter, viewport, visible, timerRuns,
                       passes, display, finished, scoreVars, areaVars,
                       lenVars>>

\* The filters as loaded: every layer draws unfiltered, nothing recorded.
FilterIdle ==
    /\ layerWhere = [k \in FilterKeys |-> MatchAll]
    /\ whereMap = << >>
    /\ callbacks = << >>
    /\ lastFilter = NoFilter

\* the filter handlers and the setWhere callbacks
FilterNext ==
    \/ \E text \in DiameterTexts : applyDiameterFilter(text)
    \/ \E key \in FilterKeys, opt \in FieldOptions, op \in Operators,
          value \in ValueTexts : apply(key, opt, op, value)
    \/ \E key \in FilterKeys : clear(key)
    \/ \E i \in 1..Len(callbacks) : SetWhereDone(i)

\* The dashboard as loaded, before any event.
AppInit ==
    /\ viewport = InitialView
    /\ visible = InitialVisible
    /\ analyticsTimer = 0
    /\ timers = {}
    /\ sinceCall = QuietMs + 1
    /\ calls = 0
    /\ bursts = 0
    /\ timerRuns = 0
    /\ passes = << >>
    /\ display = Blank
    /\ finished = << >>

\* The stand-alone function checks are not running.
ScoreIdle == scoreIn = [w |-> 0, s |-> 0, len |-> 0] /\ scoreOut = NotYet
AreaIdle == areaIn = [water |-> << >>, wastewater |-> << >>] /\ areaOut = NoArea
LenIdle == lenIn = << >> /\ lenOut = NoLen /\ SumIdle

Init == AppInit /\ ScoreIdle /\ AreaIdle /\ LenIdle /\ FilterIdle

Next ==
    \/ \E b \in Views : MoveEnd(b)
    \/ \E l \in ToggledLayers : LayerToggle(l)
    \/ Tick
    \/ TimerFire
    \/ Refresh
    \/ \E p \in 1..Len(passes) : \E k \in DOMAIN passes[p].tasks :
          PageArrives(p, k)
    \/ \E p \in 1..Len(passes) : \E k \in DOMAIN passes[p].tasks :
          PageFails(p, k)

Spec == Init /\ [][Next]_vars

\* readinessScore alone, on every input of the grid
InitScore == AppInit /\ ScoreInit /\ AreaIdle /\ LenIdle /\ FilterIdle

SpecScore == InitScore /\ [][ScoreCall]_vars

\* the analysis of one area, on every pair of small networks
InitArea == AppInit /\ ScoreIdle /\ AreaInit /\ LenIdle /\ FilterIdle

SpecArea == InitArea /\ [][AreaStep]_vars

\* lengthInViewKm with a by-diameter map, on every small collection
InitLen == AppInit /\ ScoreIdle /\ AreaIdle /\ LenInit /\ FilterIdle

SpecLen == InitLen /\ [][LenCall]_vars

\* lengthInViewKm on every two small collections and their union
InitSum ==
    /\ AppInit /\ ScoreIdle /\ AreaIdle /\ FilterIdle
    /\ lenIn = << >> /\ lenOut = NoLen
    /\ SumInit

SpecSum == InitSum /\ [][SumCall]_vars

\* the filter handlers alone, on the dashboard as loaded
SpecFilter == Init /\ [][FilterNext]_vars

----------------------------------------------------------------------------
(* Properties of the viewport analytics (app.js) *)

Last(seq) == seq[Len(seq)]

Range(seq) == {seq[i] : i \in 1..Len(seq)}

AllTasks == {<<p, k>> : p \in 1..Len(passes), k \in Layers} \cap
            UNION {{<<p, k>> : k \in DOMAIN passes[p].tasks} :
                     p \in 1..Len(passes)}

TaskOf(pk) == passes[pk[1]].tasks[pk[2]]

\* The pages a retrieval received, concatenated in the order requested.
RECURSIVE ConcatPages(_, _, _)
ConcatPages(reqs, resps, i) ==
    IF i > Len(resps) THEN << >>
    ELSE (IF resps[i] > 0
          THEN << [from |-> reqs[i].offset, n |-> resps[i],
                   bounds |-> reqs[i].bounds] >>
          ELSE << >>) \o ConcatPages(reqs, resps, i + 1)

\* The passes that wrote the tables, in the order they did.
Committed == SelectSeq(finished, LAMBDA p : passes[p].status = "committed")

\* C1: every burst of scheduleAnalytics calls less than the quiet interval
\* apart leads to exactly one timer-started computeAnalytics run: at most
\* one timeout is outstanding, each burst begun has had its one run or has
\* it scheduled, the outstanding timeout falls due one quiet interval after
\* the last call, and every timer-started run began exactly one quiet
\* interval after the last call.
C1_DebounceOneRunPerBurst ==
    /\ Cardinality(timers) <= 1
    /\ timerRuns + Cardinality(timers) = bursts
    /\ \A t \in timers : t.left = QuietMs - sinceCall /\ t.id = analyticsTimer
    /\ \A p \in 1..Len(passes) :
          passes[p].by = "timer" => passes[p].gap = QuietMs

\* A burst of two calls has ended in its single run, started by the timer
\* one quiet interval after the second call.
C1_Witness ==
    /\ calls = 2
    /\ bursts = 1
    /\ timerRuns = 1
    /\ timers = {}
    /\ \E p \in 1..Len(passes) :
          passes[p].by = "timer" /\ passes[p].gap = QuietMs

\* C2: queryAllFeatures requests pages one at a time at offsets 0, pageSize,
\* 2*pageSize, ...; it stops at the first page shorter than pageSize, every
\* page before that one being full, and returns the pages concatenated in
\* request order; an empty first page gives an empty collection after one
\* request.
C2_FetchAllConcatenatesPages ==
    \A pk \in AllTasks :
        LET t == TaskOf(pk)
            n == Len(t.resps)
        IN  /\ \A i \in 1..Len(t.reqs) : t.reqs[i].offset = (i - 1) * pageSize
            /\ Len(t.reqs) = n + (IF t.st = "pending" THEN 1 ELSE 0)
            /\ \A i \in 1..n :
                  (t.resps[i] # Err /\ t.resps[i] < pageSize)
                      => (i = n /\ t.st = "resolved")
            /\ t.st = "resolved" =>
                  /\ n >= 1
                  /\ \A i \in 1..(n - 1) : t.resps[i] = pageSize
                  /\ t.resps[n] \in 0..(pageSize - 1)
                  /\ t.result.type = "FeatureCollection"
                  /\ t.result.features = ConcatPages(t.reqs, t.resps, 1)
                  /\ FeatureCount(t.result) = (n - 1) * pageSize + t.resps[n]
                  /\ (t.resps[1] = 0 => (n = 1 /\ t.result.features = << >>))

\* One pass holds a retrieval of two pages (a full one, then a short one)
\* and a retrieval whose first page was empty, both returned.
C2_Witness ==
    \E p \in 1..Len(passes) :
        /\ DOMAIN passes[p].tasks = {"water", "hydrants"}
        /\ passes[p].tasks["water"].st = "resolved"
        /\ passes[p].tasks["water"].resps = <<pageSize, 1>>
        /\ Len(passes[p].tasks["water"].result.features) = 2
        /\ passes[p].tasks["hydrants"].st = "resolved"
        /\ passes[p].tasks["hydrants"].resps = <<0>>

\* C3: when a page request of a retrieval fails, at whatever page, the
\* retrieval is rejected: it returns no collection, keeps none of the
\* features of earlier pages, requests no further page, and its pass fails
\* without writing the tables.
C3_FailedPageFailsRetrieval ==
    \A pk \in AllTasks :
        LET t == TaskOf(pk)
            n == Len(t.resps)
        IN  (\E i \in 1..n : t.resps[i] = Err) =>
              /\ t.resps[n] = Err
              /\ \A i \in 1..(n - 1) : t.resps[i] # Err
              /\ t.st = "rejected"
              /\ t.result = NoResult
              /\ t.all = << >>
              /\ Len(t.reqs) = n
              /\ passes[pk[1]].status = "failed"
              /\ \A i \in 1..Len(Committed) : Committed[i] # pk[1]

\* A retrieval failed on its second page, after a full first page.
C3_Witness ==
    \E pk \in AllTasks : TaskOf(pk).resps = <<pageSize, Err>>

\* C4 (as claimed): once the pass that finished last has failed, the
\* display no longer shows figures (those of an earlier pass) as current.
C4_FailedPassNotShownStale ==
    (finished # << >> /\ passes[Last(finished)].status = "failed")
        => ~display.shown

\* C5 (as claimed): a pass that started earlier never writes the display
\* after a pass that started later has written it.
C5_EarlierPassNeverOverwritesLater ==
    \A i, j \in 1..Len(Committed) : i < j => Committed[i] < Committed[j]

\* C6: a trigger leaves the passes in flight as they are, and the display
\* always shows the output of the pass that completed last, whatever the
\* order in which the passes started; so it does once every started pass
\* has completed.
C6_DisplayIsLastCompleted ==
    Committed # << >> => display = Summary(passes[Last(Committed)])

C6_LastToFinishWins ==
    /\ [] C6_DisplayIsLastCompleted
    /\ [][calls' # calls => passes' = passes]_vars

\* Both passes completed, the one started second first, and the display
\* shows the figures of the one started first, which differ.
C6_Witness ==
    /\ Len(passes) = 2
    /\ finished = <<2, 1>>
    /\ \A p \in 1..2 : passes[p].status = "committed"
    /\ display = Summary(passes[1])
    /\ Summary(passes[1]) # Summary(passes[2])

\* C14 (as claimed): within one pass every page request of every layer
\* asks for the same bounds, and these are the bbox of the pass, to which
\* it clips the lengths, whatever the viewport does in between.
C14_PageRequestsUsePassBBox ==
    \A pk \in AllTasks :
        \A i \in 1..Len(TaskOf(pk).reqs) :
            currentBBox(TaskOf(pk).reqs[i].bounds) = passes[pk[1]].bbox

\* the passes started by the refresh button
RefreshPasses == {p \in 1..Len(passes) : passes[p].by = "refresh"}

\* C15: a manual refresh starts a pass at once and leaves the debounce
\* timer as it is: the step that starts a refresh pass changes neither the
\* pending timeouts nor analyticsTimer; a pending timeout goes away only by
\* a later scheduleAnalytics call or by falling due and starting its own
\* pass; so the passes are the timer's runs and, on top of them, one per
\* refresh.
C15_RefreshLeavesTimerUnchanged ==
    /\ [][ /\ ( /\ Len(passes') = Len(passes) + 1
               /\ passes'[Len(passes')].by = "refresh" )
            => timers' = timers /\ analyticsTimer' = analyticsTimer
          /\ \A t \in timers :
               (\A u \in timers' : u.id # t.id) =>
                  \/ calls' = calls + 1
                  \/ /\ t.left = 0
                     /\ timerRuns' = timerRuns + 1
                     /\ Len(passes') = Len(passes) + 1
                     /\ passes'[Len(passes')].by = "timer" ]_vars
    /\ [](Len(passes) = timerRuns + Cardinality(RefreshPasses))

\* After the only scheduleAnalytics call (the move to the other view) and
\* while its run was pending, a refresh started a pass; the scheduled run
\* then fired one quiet interval after the call: two passes.
C15_Witness ==
    /\ calls = 1
    /\ timers = {}
    /\ Len(passes) = 2
    /\ passes[1].by = "refresh"
    /\ passes[1].bbox # currentBBox(InitialView)
    /\ passes[2].by = "timer"
    /\ passes[2].gap = QuietMs

----------------------------------------------------------------------------
(* Properties of readinessScore (gis_analysis.js) *)

\* C7: readinessScore(w, s, len) lies in [0,1] for all distances w and s
\* that are non-negative and finite or Infinity and every non-negative
\* length len of the grid.
C7_ScoreInUnitInterval ==
    scoreOut # NotYet => (0 <= scoreOut /\ scoreOut <= ScoreDen)

\* The score was computed for an unbounded water distance and reached 1.
C7_Witness ==
    /\ scoreIn = [w |-> Infinity, s |-> 0, len |-> 3000]
    /\ scoreOut = ScoreDen

\* The weight triple (in tenths) the claim gives for two distances: a
\* proximity index is zero exactly from 0.6 km on.
ClaimedWeights(w, s) ==
    LET wZero == w >= CapM
        sZero == s >= CapM
    IN  IF wZero /\ sZero THEN <<0, 0, 10>>
        ELSE IF wZero THEN <<0, 6, 4>>
        ELSE IF sZero THEN <<6, 0, 4>>
        ELSE <<4, 4, 2>>

\* The proximity index of the specification: 1 - min(d/0.6, 1), 0 at
\* Infinity, on the denominator IdxDen.
ClaimedIdx(d) == IF d >= CapM THEN 0 ELSE ((CapM - d) * IdxDen) \div CapM

\* C8: the score is the weighted sum of (waterIdx, sewerIdx, densityIdx)
\* with weights (0,0,1) when both proximity indices are zero, (0,0.6,0.4)
\* when only water's is, (0.6,0,0.4) when only sewer's is, (0.4,0.4,0.2)
\* otherwise; a distance of 0.6 km or more scores as Infinity does;
\* score(Inf,Inf,0) = 0, score(0,0,len) = 1 for len >= 1.5 km, and
\* score(0.3,Inf,0) = 0.6 * 0.5.
C8_WeightsByZeroIndex ==
    scoreOut # NotYet =>
        LET w == scoreIn.w
            s == scoreIn.s
            len == scoreIn.len
            W == ClaimedWeights(w, s)
            dIdx == IF len >= GoodLenM THEN IdxDen
                    ELSE (len * IdxDen) \div GoodLenM
        IN  /\ scoreOut = W[1] * ClaimedIdx(w) + W[2] * ClaimedIdx(s)
                          + W[3] * dIdx
            /\ w >= CapM => scoreOut = readinessScore(Infinity, s, len)
            /\ s >= CapM => scoreOut = readinessScore(w, Infinity, len)
            /\ (w = Infinity /\ s = Infinity /\ len = 0) => scoreOut = 0
            /\ (w = 0 /\ s = 0 /\ len >= GoodLenM) => scoreOut = ScoreDen
            /\ (w = 300 /\ s = Infinity /\ len = 0)
                  => scoreOut = 6 * (IdxDen \div 2)

\* score(0.7 km, 0.3 km, 0.5 km): the water distance is finite, its index
\* is zero, so the weights are (0, 0.6, 0.4).
C8_Witness ==
    /\ scoreIn = [w |-> 700, s |-> 300, len |-> 500]
    /\ scoreOut = 6 * (IdxDen \div 2) + 4 * (IdxDen \div 3)

----------------------------------------------------------------------------
(* Properties of the per-area analysis (gis_analysis.js) *)

\* The example of the specification: one 1 km water line 0.2 km from the
\* centroid, 0.8 km of it inside the 250 m buffer, no wastewater network.
ExampleArea == [water |-> <<ClaimLine>>, wastewater |-> << >>]

\* The sum of a field over the LineString features of fc within the search
\* radius of the bounding box that meet the 250 m buffer.
RECURSIVE SumBuffered(_, _)
SumBuffered(fc, field) ==
    IF fc = << >> THEN 0
    ELSE (IF /\ Head(fc).type = "LineString"
             /\ Head(fc).boxDist <= SearchRadiusM
             /\ Head(fc).polyDist <= BufferM
          THEN Head(fc)[field] ELSE 0) + SumBuffered(Tail(fc), field)

LinesMeetingBufferedBox(fc) ==
    SelectSeq(fc, LAMBDA f : /\ f.type \in {"LineString", "MultiLineString"}
                             /\ f.boxDist <= SearchRadiusM)

\* C11 (as claimed): linesNearPolygon leaves out no line feature, single-line
\* or multi-line, that intersects the buffered bounding box of the area, and
\* an empty collection yields an empty collection.
C11_NoLineMeetingBufferedBoxLeftOut ==
    areaOut.done =>
        /\ Range(LinesMeetingBufferedBox(areaIn.water))
               \subseteq Range(areaOut.waterNear)
        /\ Range(LinesMeetingBufferedBox(areaIn.wastewater))
               \subseteq Range(areaOut.sewerNear)
        /\ areaIn.water = << >> => areaOut.waterNear = << >>
        /\ areaIn.wastewater = << >> => areaOut.sewerNear = << >>

----------------------------------------------------------------------------
(* Properties of the filters (app.js) *)

\* The input of a handler run is malformed: a diameter threshold that is
\* not a finite number or is negative, or a value for a date field that
\* cannot be parsed as a date.
MalformedFilter(f) ==
    \/ /\ f.by = "applyDiameterFilter"
       /\ \/ f.value.t \in {"word", "infinity", "date"}
          \/ f.value.t = "numeral" /\ f.value.v < 0
    \/ /\ f.by = "apply"
       /\ f.ftype = "esriFieldTypeDate"
       /\ f.value.t = "word"

\* C12 (as claimed): a handler run on malformed input informs the user,
\* sets no where-clause on the layer, and leaves no callback behind that
\* would record a clause in whereMap and schedule a recompute.
C12_MalformedFilterRejected ==
    /\ MalformedFilter(lastFilter) =>
           /\ lastFilter.alerted
           /\ lastFilter.where = NoClause
    /\ \A i \in 1..Len(callbacks) : ~MalformedFilter(callbacks[i].from)

----------------------------------------------------------------------------
(* Properties of lengthInViewKm (app.js) *)

\* C10 (as claimed): with a bin map, only features that carry a finite
\* numeric nominaldiameter create or change a bin: every bin is the
\* diameter of such a feature of the collection.
C10_OnlyFiniteNumericBinned ==
    lenOut.done =>
        DOMAIN lenOut.byDia \subseteq
            {f.nd.v : f \in {g \in Range(lenIn) : g.nd.t = "number"}}

\* the length in bin d of a by-diameter map, 0 when there is no such bin
BinOf(m, d) == IF d \in DOMAIN m THEN m[d] ELSE 0

\* C13: lengthInViewKm is additive: for two collections and any collection
\* that holds exactly the features of both, with the same bbox, the totals
\* of the two add up to the total of the union, and so do the lengths in
\* every diameter bin; the union has a bin exactly when one of the two has.
C13_LengthInViewAdditive ==
    sumOut.done =>
        /\ sumOut.both.totalKm = sumOut.a.totalKm + sumOut.b.totalKm
        /\ DOMAIN sumOut.both.byDia
              = DOMAIN sumOut.a.byDia \cup DOMAIN sumOut.b.byDia
        /\ \A d \in DOMAIN sumOut.both.byDia :
              sumOut.both.byDia[d]
                 = BinOf(sumOut.a.byDia, d) + BinOf(sumOut.b.byDia, d)

\* Two collections that share a diameter bin have been aggregated with
\* their union in the view that clips the lines, the union interleaving
\* them.
C13_Witness ==
    /\ sumOut.done
    /\ sumIn.bbox # currentBBox(InitialView)
    /\ Len(sumIn.a) = MaxFeat /\ Len(sumIn.b) = MaxFeat
    /\ sumIn.both # sumIn.a \o sumIn.b
    /\ sumIn.both # sumIn.b \o sumIn.a
    /\ \E d \in DOMAIN sumOut.a.byDia \cap DOMAIN sumOut.b.byDia :
          /\ sumOut.a.byDia[d] > 0
          /\ sumOut.b.byDia[d] > 0
          /\ sumOut.both.byDia[d] > sumOut.a.byDia[d]

====
